---- MODULE Spec2Model ----
(***************************************************************************)
(* A model of glog-rs: the process-wide LOGGER cell and its one-time      *)
(* construction (init), the Log trait entry points (log, flush), the      *)
(* fatal! macro, and the dispatch of one record to stderr and to the      *)
(* per-severity log files (log_internal, write_stderr, write_file).       *)
(*                                                                         *)
(* Threads interleave at every point where the code touches shared state: *)
(* the OnceCell, the log facade's registration, each file's Mutex and     *)
(* each single write to a file.                                            *)
(***************************************************************************)
EXTENDS Integers, Sequences, FiniteSets, TLC

\* ------------------------------------------------------------------ bounds

\* Calls (init, log, fatal!, flush) started in one behaviour, over all threads.
MaxOps == 3

Threads == {"t1", "t2"}

\* ------------------------------------------------------- Option<T>, helpers

NoneV == <<>>
Some(x) == <<x>>
is_some(o) == Len(o) > 0
unwrap(o) == o[1]

Put(f, k, v) == [x \in DOMAIN f \cup {k} |-> IF x = k THEN v ELSE f[x]]

Digit(d) ==
    CASE d = 0 -> "0" [] d = 1 -> "1" [] d = 2 -> "2" [] d = 3 -> "3" [] d = 4 -> "4"
      [] d = 5 -> "5" [] d = 6 -> "6" [] d = 7 -> "7" [] d = 8 -> "8" [] OTHER -> "9"

\* Display of an unsigned integer, as format!("{}", line) prints it.
RECURSIVE U32ToString(_)
U32ToString(n) == IF n < 10 THEN Digit(n) ELSE U32ToString(n \div 10) \o Digit(n % 10)

\* ------------------------------------------------------------------ levels

\* log::Level of the facade, ordered Error < Warn < Info < Debug < Trace.
LogLevels == {"Error", "Warn", "Info", "Debug", "Trace"}

LogLevelOrd(lv) ==
    CASE lv = "Error" -> 1 [] lv = "Warn" -> 2 [] lv = "Info" -> 3
      [] lv = "Debug" -> 4 [] lv = "Trace" -> 5

\* glog's own Level enum.
Levels == {"Verbose", "Trace", "Debug", "Info", "Warn", "Error", "Fatal"}

\* impl From<log::Level> for Level: each facade level maps to the variant of
\* the same name.
LevelFrom(lv) ==
    CASE lv = "Trace" -> "Trace" [] lv = "Debug" -> "Debug" [] lv = "Info" -> "Info"
      [] lv = "Warn" -> "Warn" [] lv = "Error" -> "Error"

\* The rank table init inserts into level_integers.
LevelIntegers ==
    [lv \in Levels |->
        CASE lv = "Verbose" -> -3 [] lv = "Trace" -> -2 [] lv = "Debug" -> -1
          [] lv = "Info" -> 0 [] lv = "Warn" -> 1 [] lv = "Error" -> 2 [] lv = "Fatal" -> 3]

\* Level::as_str(..).chars().next(): the abbreviation at the head of a line.
Abbrev(lv) ==
    CASE lv = "Verbose" -> "V" [] lv = "Trace" -> "T" [] lv = "Debug" -> "D"
      [] lv = "Info" -> "I" [] lv = "Warn" -> "W" [] lv = "Error" -> "E" [] lv = "Fatal" -> "F"

\* level.to_string().to_uppercase(), the severity part of a log file's name.
Upper(lv) ==
    CASE lv = "Verbose" -> "VERBOSE" [] lv = "Trace" -> "TRACE" [] lv = "Debug" -> "DEBUG"
      [] lv = "Info" -> "INFO" [] lv = "Warn" -> "WARN" [] lv = "Error" -> "ERROR"
      [] lv = "Fatal" -> "FATAL"

\* ------------------------------------------------------------------- flags

TempDir == "/tmp/"

\* Mutant of FlagsDefault: alsologtostderr on by default.
FlagsDefault_also ==
    [colorlogtostderr |-> FALSE,
     minloglevel      |-> "Info",
     log_backtrace_at |-> NoneV,
     logtostderr      |-> FALSE,
     alsologtostderr  |-> TRUE,
     log_dir          |-> "/tmp/"]

\* impl Default for Flags.
FlagsDefault ==
    [colorlogtostderr |-> FALSE,
     minloglevel      |-> "Info",
     log_backtrace_at |-> NoneV,
     logtostderr      |-> FALSE,
     alsologtostderr  |-> FALSE,
     log_dir          |-> TempDir]

\* The struct literal of init's closure, with the rank table filled in.
NewGlogger ==
    [compatible_verbosity    |-> TRUE,
     compatible_date         |-> TRUE,
     flags                   |-> FlagsDefault,
     application_fingerprint |-> NoneV,
     file_writer             |-> [lv \in {} |-> ""],
     level_integers          |-> LevelIntegers]

\* ------------------------------------------------- pure methods of Glogger

\* The builder methods: each takes the Glogger by value (mut self) and returns
\* the changed value.
with_year(self, with_year_arg) == [self EXCEPT !.compatible_date = ~with_year_arg]
reduced_log_levels(self, limit_abbreviations) ==
    [self EXCEPT !.compatible_verbosity = limit_abbreviations]
set_application_fingerprint(self, fingerprint) ==
    [self EXCEPT !.application_fingerprint = Some(fingerprint)]

\* Mutant of match_level: the Trace arm forgotten.
match_level_debug_only(self, level) ==
    IF level = "Debug" /\ self.compatible_verbosity THEN "Info" ELSE level

\* Glogger::match_level: Debug and Trace collapse into Info while
\* compatible_verbosity is set.
match_level(self, level) ==
    IF level \in {"Debug", "Trace"} /\ self.compatible_verbosity THEN "Info" ELSE level

\* Glogger::level_as_int: the rank of the (collapsed) level.
level_as_int(self, level) == self.level_integers[match_level(self, level)]

\* level_integers.get_by_right(..).unwrap()
get_by_right(self, i) == CHOOSE lv \in DOMAIN self.level_integers : self.level_integers[lv] = i

\* Mutant of enabled: the comparison made strict.
enabled_strict(self, level) == LogLevelOrd(self.flags.minloglevel) > LogLevelOrd(level)

\* Mutant of enabled: the comparison turned around.
enabled_reversed(self, level) == LogLevelOrd(self.flags.minloglevel) <= LogLevelOrd(level)

\* Log::enabled: self.flags.minloglevel >= metadata.level(), in log::Level's order.
enabled(self, level) == LogLevelOrd(self.flags.minloglevel) >= LogLevelOrd(level)

\* Mutant of should_log_backtrace: the line counted from zero.
should_log_backtrace_line_off(self, file_name, line) ==
    IF is_some(self.flags.log_backtrace_at)
    THEN (file_name \o ":" \o U32ToString(line - 1)) = unwrap(self.flags.log_backtrace_at)
    ELSE FALSE

\* Glogger::should_log_backtrace
should_log_backtrace(self, file_name, line) ==
    IF is_some(self.flags.log_backtrace_at)
    THEN (file_name \o ":" \o U32ToString(line)) = unwrap(self.flags.log_backtrace_at)
    ELSE FALSE

\* Glogger::record_to_file_name: the last component of record.file(), "" when
\* there is none. A path is the sequence of its components.
record_to_file_name(file) ==
    IF is_some(file) /\ Len(unwrap(file)) > 0 THEN unwrap(file)[Len(unwrap(file))] ELSE ""

\* Glogger::build_log_message without the clock and the thread id, which the
\* environment supplies; the message arguments are the chunk's event.
build_log_message(self, record) ==
    Abbrev(match_level(self, record.level))
        \o (IF self.compatible_date THEN "" ELSE "yyyy") \o "mmdd "
        \o record.file \o ":" \o U32ToString(record.line) \o "]"

\* The file name create_log_files derives for a level (executable, host, user
\* and the time/pid suffix are fixed within one process).
log_file_path(self, level) == self.flags.log_dir \o "exe.host.user.log." \o Upper(level)

\* The levels create_log_files makes a file for, in its order.
create_log_files_levels(self) ==
    (IF ~self.compatible_verbosity THEN <<"Trace", "Debug">> ELSE <<>>)
        \o <<"Info", "Warn", "Error">>

\* The header block write_file_header writes (clock and host left out).
file_header(self) ==
    (IF is_some(self.application_fingerprint)
        THEN "Application fingerprint: " \o unwrap(self.application_fingerprint) \o " "
        ELSE "")
        \o "Log line format: [" \o (IF self.compatible_verbosity THEN "" ELSE "TD")
        \o "IWE]" \o (IF self.compatible_date THEN "" ELSE "yyyy") \o "mmdd"

\* Mutant of to_files: alsologtostderr taken to ask for the files too.
to_files_or_also(flags) == ~flags.logtostderr \/ flags.alsologtostderr

\* log_internal's two tests of the flags.
to_stderr(flags) == flags.logtostderr \/ flags.alsologtostderr
to_files(flags) == ~flags.logtostderr

\* Mutant of write_file_last: the range minloglevel's rank .. the record's
\* rank, exclusive of its end.
write_file_last_exclusive(self, record) == level_as_int(self, record.level) - 1

\* write_file's range of ranks: minloglevel's rank ..= the record's rank.
\* Mutant of write_file_first: the loop starts one rank above the minimum.
write_file_first_above(self) == level_as_int(self, LevelFrom(self.flags.minloglevel)) + 1

write_file_first(self) == level_as_int(self, LevelFrom(self.flags.minloglevel))
write_file_last(self, record) == level_as_int(self, record.level)

\* Mutant of stderr_color: Fatal falls through to the default colour.
stderr_color_fatal_default(level) ==
    CASE level = "Error" -> "red" [] level = "Warn" -> "yellow" [] OTHER -> "default"

\* write_stderr's colour for a level.
stderr_color(level) ==
    CASE level \in {"Fatal", "Error"} -> "red" [] level = "Warn" -> "yellow" [] OTHER -> "default"

\* ------------------------------------------------------------------- state

VARIABLES
    cell,        \* the OnceCell LOGGER: "uninit", "running" (closure in progress), "done"
    l,           \* the closure's local l: Option<Glogger> under construction
    LOGGER,      \* what LOGGER.get() returns: Option<Glogger>
    max_level,   \* the facade's log::max_level()
    registered,  \* whether log::set_logger has installed a logger
    disk,        \* path -> the chunks written to that file, in order
    created,     \* the paths File::create was called on, in order
    mutex,       \* path -> the thread holding the file's Mutex, or "free"
    stderr,      \* the chunks written to the process's stderr, in order
    pc,          \* thread -> its position
    rec,         \* thread -> the glog Record it is writing
    level_int,   \* thread -> write_file's loop variable
    init_flags,  \* thread -> the flags moved into its init closure
    init_no,     \* thread -> the number of the init call it is in, 0 outside init
    ext_calls,   \* history: every call of a builder method on the logger
    todo,        \* thread -> the levels flush has still to visit
    calls,       \* history: every log / fatal! call and its outcome, by event number
    inits,       \* history: every init call, in the order they reached the cell
    first_flags, \* history: the flags of the first init call
    nflush       \* history: the number of flush calls

vars == <<cell, l, LOGGER, max_level, registered, disk, created, mutex, stderr,
          pc, rec, level_int, init_flags, init_no, todo, calls, inits, first_flags,
          nflush, ext_calls>>

NoRecord == [line |-> 0, args |-> 0, file |-> "", level |-> "Info"]

Ops == Len(calls) + Len(inits) + nflush + Len(ext_calls)

Init ==
    /\ cell = "uninit"
    /\ l = NoneV
    /\ LOGGER = NoneV
    /\ max_level = "Off"
    /\ registered = FALSE
    /\ disk = [p \in {} |-> <<>>]
    /\ created = <<>>
    /\ mutex = [p \in {} |-> "free"]
    /\ stderr = <<>>
    /\ pc = [t \in Threads |-> "idle"]
    /\ rec = [t \in Threads |-> NoRecord]
    /\ level_int = [t \in Threads |-> 0]
    /\ init_flags = [t \in Threads |-> FlagsDefault]
    /\ init_no = [t \in Threads |-> 0]
    /\ ext_calls = <<>>
    /\ todo = [t \in Threads |-> {}]
    /\ calls = <<>>
    /\ inits = <<>>
    /\ first_flags = NoneV
    /\ nflush = 0

Chunk(kind, ev, text) == [kind |-> kind, ev |-> ev, text |-> text]

\* ------------------------------------------------------------------- init

\* Mutant of get_or_init: a cell that runs the closure again for a caller
\* that finds it already filled.
get_or_init_again(c) == IF c = "running" THEN "wait" ELSE "run"

\* OnceCell::get_or_init, by the state of the cell: the caller runs the
\* closure, waits for the thread running it, or takes the stored value.
get_or_init(c) ==
    CASE c = "uninit" -> "run" [] c = "running" -> "wait" [] c = "done" -> "have"

\* Mutant of init_closure_begin: the fresh struct is stored in LOGGER first and
\* set up afterwards.
init_closure_begin_stored_first(t, flags) ==
    /\ cell' = "running"
    /\ l' = Some(NewGlogger)
    /\ LOGGER' = Some(NewGlogger)
    /\ init_flags' = [init_flags EXCEPT ![t] = flags]
    /\ pc' = [pc EXCEPT ![t] = IF ~flags.logtostderr THEN "create_log_files" ELSE "set_flags"]

\* What init's closure does before create_log_files: the struct literal and
\* the seven inserts into level_integers.
init_closure_begin(t, flags) ==
    /\ cell' = "running"
    /\ l' = Some(NewGlogger)
    /\ init_flags' = [init_flags EXCEPT ![t] = flags]
    /\ pc' = [pc EXCEPT ![t] = IF ~flags.logtostderr THEN "create_log_files" ELSE "set_flags"]
    /\ UNCHANGED LOGGER

\* The thread that makes the next call. A thread between calls carries no
\* state of its own, so threads between calls are interchangeable and one of
\* them stands for all.
caller(t) == pc[t] = "idle" /\ t = CHOOSE u \in Threads : pc[u] = "idle"

\* init(flags), up to LOGGER.get_or_init: the first caller starts the closure,
\* a caller racing it blocks in the cell, a later caller goes on to set_logger.
init(t, flags) ==
    /\ caller(t)
    /\ Ops < MaxOps
    /\ first_flags' = IF inits = <<>> THEN Some(flags) ELSE first_flags
    /\ init_no' = [init_no EXCEPT ![t] = Len(inits) + 1]
    /\ inits' = Append(inits, [ran |-> get_or_init(cell) = "run",
                               other_flags |-> inits # <<>> /\ Some(flags) # first_flags,
                               result |-> "pending"])
    /\ CASE get_or_init(cell) = "run" -> init_closure_begin(t, flags)
         [] get_or_init(cell) = "wait" ->
                /\ pc' = [pc EXCEPT ![t] = "get_or_init"]
                /\ UNCHANGED <<cell, l, LOGGER, init_flags>>
         [] get_or_init(cell) = "have" ->
                /\ pc' = [pc EXCEPT ![t] = "set_logger"]
                /\ UNCHANGED <<cell, l, LOGGER, init_flags>>
    /\ UNCHANGED <<max_level, registered, disk, created, mutex, stderr, rec, level_int,
                   todo, calls, nflush, ext_calls>>

\* A caller blocked in get_or_init resumes once the closure has finished.
get_or_init_wake(t) ==
    /\ pc[t] = "get_or_init"
    /\ cell = "done"
    /\ pc' = [pc EXCEPT ![t] = "set_logger"]
    /\ UNCHANGED <<cell, l, LOGGER, max_level, registered, disk, created, mutex, stderr,
                   rec, level_int, init_flags, todo, calls, inits, nflush, first_flags, init_no, ext_calls>>

\* The next level create_log_files has no file for yet.
create_log_files_next(self) ==
    LET order == create_log_files_levels(self)
        i == CHOOSE i \in 1..Len(order) :
                /\ order[i] \notin DOMAIN self.file_writer
                /\ \A j \in 1..(i - 1) : order[j] \in DOMAIN self.file_writer
    IN order[i]

\* Mutant of write_file_header: the file is created and its handle inserted,
\* and no header is written.
write_file_header_skipped(t) ==
    /\ pc[t] = "create_log_files"
    /\ LET self == unwrap(l)
           level == create_log_files_next(self)
           path == log_file_path(self, level)
           self2 == [self EXCEPT !.file_writer = Put(self.file_writer, level, path)]
       IN /\ disk' = Put(disk, path, <<>>)
          /\ created' = Append(created, path)
          /\ mutex' = Put(mutex, path, "free")
          /\ l' = Some(self2)
          /\ pc' = [pc EXCEPT ![t] =
                        IF \A i \in 1..Len(create_log_files_levels(self2)) :
                               create_log_files_levels(self2)[i] \in DOMAIN self2.file_writer
                        THEN "set_flags" ELSE "create_log_files"]
    /\ UNCHANGED <<cell, LOGGER, max_level, registered, stderr, rec, level_int,
                   init_flags, todo, calls, inits, nflush, first_flags, init_no, ext_calls>>

\* One turn of create_log_files' loops: write_file_header creates (or
\* truncates) the file, writes the header, and inserts the append handle with
\* a fresh Mutex into l.file_writer.
write_file_header(t) ==
    /\ pc[t] = "create_log_files"
    /\ LET self == unwrap(l)
           level == create_log_files_next(self)
           path == log_file_path(self, level)
           self2 == [self EXCEPT !.file_writer = Put(self.file_writer, level, path)]
       IN /\ disk' = Put(disk, path, <<Chunk("header", 0, file_header(self))>>)
          /\ created' = Append(created, path)
          /\ mutex' = Put(mutex, path, "free")
          /\ l' = Some(self2)
          /\ pc' = [pc EXCEPT ![t] =
                        IF \A i \in 1..Len(create_log_files_levels(self2)) :
                               create_log_files_levels(self2)[i] \in DOMAIN self2.file_writer
                        THEN "set_flags" ELSE "create_log_files"]
    /\ UNCHANGED <<cell, LOGGER, max_level, registered, stderr, rec, level_int,
                   init_flags, todo, calls, inits, nflush, first_flags, init_no, ext_calls>>

\* The end of the closure: log::set_max_level, l.flags = flags, and the cell
\* stores l.
init_closure_end(t) ==
    /\ pc[t] = "set_flags"
    /\ max_level' = init_flags[t].minloglevel
    /\ LOGGER' = Some([unwrap(l) EXCEPT !.flags = init_flags[t]])
    /\ l' = NoneV
    /\ cell' = "done"
    /\ init_flags' = [init_flags EXCEPT ![t] = FlagsDefault]
    /\ pc' = [pc EXCEPT ![t] = "set_logger"]
    /\ UNCHANGED <<registered, disk, created, mutex, stderr, rec, level_int, todo,
                   calls, inits, nflush, first_flags, init_no, ext_calls>>

\* log::set_logger: Ok for the first logger installed, Err(SetLoggerError)
\* ever after.
set_logger_result(reg) == IF reg THEN "Err" ELSE "Ok"

\* init's last line: log::set_logger(logger), whose result init returns.
set_logger(t) ==
    /\ pc[t] = "set_logger"
    /\ inits' = [inits EXCEPT ![init_no[t]].result = set_logger_result(registered)]
    /\ init_no' = [init_no EXCEPT ![t] = 0]
    /\ registered' = TRUE
    /\ pc' = [pc EXCEPT ![t] = "idle"]
    /\ UNCHANGED <<cell, l, LOGGER, max_level, disk, created, mutex, stderr, rec,
                   level_int, init_flags, todo, calls, nflush, first_flags, ext_calls>>

\* ------------------------------------------------------ log_internal, log

\* Where log_internal sends a record first: write_stderr, else write_file.
log_internal_entry(self) ==
    IF to_stderr(self.flags) THEN "write_stderr"
    ELSE IF to_files(self.flags) THEN "write_file" ELSE "write_sinks"

\* Log::log of the installed logger: the enabled test, the conversion of the
\* facade's record, then log_internal. The facade hands an event to the
\* logger set_logger installed and to a no-op logger before that; its macros
\* first drop what max_level excludes, which enabled would drop as well.
log(t, level, file, line) ==
    /\ caller(t)
    /\ Ops < MaxOps
    /\ LET ev == Len(calls) + 1
           call == [op |-> "log", level |-> LevelFrom(level),
                    file |-> record_to_file_name(file),
                    line |-> IF is_some(line) THEN unwrap(line) ELSE 0]
       IN IF ~registered
          THEN /\ calls' = Append(calls, call @@ [status |-> "nop"])
               /\ UNCHANGED <<pc, rec, level_int>>
          ELSE LET self == unwrap(LOGGER) IN
               IF ~enabled(self, level)
               THEN /\ calls' = Append(calls, call @@ [status |-> "filtered"])
                    /\ UNCHANGED <<pc, rec, level_int>>
               ELSE /\ calls' = Append(calls, call @@ [status |-> "running"])
                    /\ rec' = [rec EXCEPT ![t] = [line |-> call.line, args |-> ev,
                                                  file |-> call.file, level |-> call.level]]
                    /\ level_int' = [level_int EXCEPT ![t] = write_file_first(self)]
                    /\ pc' = [pc EXCEPT ![t] = log_internal_entry(self)]
    /\ UNCHANGED <<cell, l, LOGGER, max_level, registered, disk, created, mutex, stderr,
                   init_flags, todo, inits, nflush, first_flags, init_no, ext_calls>>

\* fatal!: nothing at all while LOGGER.get() is None; otherwise a Fatal record
\* built from file!() and line!() goes straight to log_internal, with no
\* enabled test, and panic!() follows.
fatal(t, file, line) ==
    /\ caller(t)
    /\ Ops < MaxOps
    /\ LET ev == Len(calls) + 1
           call == [op |-> "fatal", level |-> "Fatal",
                    file |-> record_to_file_name(Some(file)), line |-> line]
       IN IF ~is_some(LOGGER)
          THEN /\ calls' = Append(calls, call @@ [status |-> "skipped"])
               /\ UNCHANGED <<pc, rec, level_int>>
          ELSE LET self == unwrap(LOGGER) IN
               /\ calls' = Append(calls, call @@ [status |-> "running"])
               /\ rec' = [rec EXCEPT ![t] = [line |-> call.line, args |-> ev,
                                             file |-> call.file, level |-> "Fatal"]]
               /\ level_int' = [level_int EXCEPT ![t] = write_file_first(self)]
               /\ pc' = [pc EXCEPT ![t] = log_internal_entry(self)]
    /\ UNCHANGED <<cell, l, LOGGER, max_level, registered, disk, created, mutex, stderr,
                   init_flags, todo, inits, nflush, first_flags, init_no, ext_calls>>

\* What write_stderr writes for a record, under the stderr lock it holds
\* throughout: the colour, the line, the reset, the backtrace.
write_stderr_chunks(self, record) ==
    (IF self.flags.colorlogtostderr
        THEN <<Chunk("set_color", record.args, stderr_color(record.level))>> ELSE <<>>)
    \o <<Chunk("line", record.args, build_log_message(self, record))>>
    \o (IF self.flags.colorlogtostderr THEN <<Chunk("reset", record.args, "")>> ELSE <<>>)
    \o (IF should_log_backtrace(self, record.file, record.line)
        THEN <<Chunk("backtrace", record.args, "")>> ELSE <<>>)

write_stderr(t) ==
    /\ pc[t] = "write_stderr"
    /\ LET self == unwrap(LOGGER)
       IN /\ stderr' = stderr \o write_stderr_chunks(self, rec[t])
          /\ pc' = [pc EXCEPT ![t] = IF to_files(self.flags) THEN "write_file" ELSE "write_sinks"]
    /\ UNCHANGED <<cell, l, LOGGER, max_level, registered, disk, created, mutex,
                   rec, level_int, init_flags, todo, calls, inits, nflush, first_flags, init_no, ext_calls>>

\* ------------------------------------------------------------- write_file

\* Mutant of can_lock: the file handles are shared with no Mutex around them.
can_lock_unguarded(path) == TRUE

\* Mutex::lock succeeds only on a free mutex.
can_lock(path) == mutex[path] = "free"

\* Top of write_file's loop with ranks left: file_writer.get(level).unwrap()
\* .lock().unwrap() on the file of rank level_int, and the first of the two
\* writes that write_fmt(format_args!("{}\n", ..)) makes on the unbuffered
\* File: the message.
write_file_msg(t) ==
    /\ pc[t] = "write_file"
    /\ LET self == unwrap(LOGGER)
           level == get_by_right(self, level_int[t])
       IN /\ level_int[t] <= write_file_last(self, rec[t])
          /\ level \in DOMAIN self.file_writer
          /\ can_lock(self.file_writer[level])
          /\ mutex' = [mutex EXCEPT ![self.file_writer[level]] = t]
          /\ disk' = [disk EXCEPT ![self.file_writer[level]] =
                         Append(@, Chunk("msg", rec[t].args, build_log_message(self, rec[t])))]
    /\ pc' = [pc EXCEPT ![t] = "write_nl"]
    /\ UNCHANGED <<cell, l, LOGGER, max_level, registered, created, stderr,
                   rec, level_int, init_flags, todo, calls, inits, nflush, first_flags, init_no, ext_calls>>

\* Mutant of write_file_no_writer: a rank with no file gets one on the spot
\* (the file created by the event that needs it) and the loop goes on.
write_file_no_writer_lazy(t) ==
    /\ pc[t] = "write_file"
    /\ LET self == unwrap(LOGGER)
           level == get_by_right(self, level_int[t])
           path == log_file_path(self, level)
       IN /\ level_int[t] <= write_file_last(self, rec[t])
          /\ level \notin DOMAIN self.file_writer
          /\ LOGGER' = Some([self EXCEPT !.file_writer = Put(self.file_writer, level, path)])
          /\ disk' = Put(disk, path, <<Chunk("header", 0, file_header(self))>>)
          /\ created' = Append(created, path)
          /\ mutex' = Put(mutex, path, "free")
    /\ UNCHANGED <<cell, l, max_level, registered, stderr, pc, rec, level_int, calls,
                   init_flags, todo, inits, nflush, first_flags, init_no, ext_calls>>

\* The same place when file_writer holds no file for the rank: unwrap() of
\* None panics and the thread unwinds, holding no lock.
write_file_no_writer(t) ==
    /\ pc[t] = "write_file"
    /\ LET self == unwrap(LOGGER)
           level == get_by_right(self, level_int[t])
       IN /\ level_int[t] <= write_file_last(self, rec[t])
          /\ level \notin DOMAIN self.file_writer
    /\ calls' = [calls EXCEPT ![rec[t].args].status = "unwrap_none"]
    /\ pc' = [pc EXCEPT ![t] = "panicked"]
    /\ rec' = [rec EXCEPT ![t] = NoRecord]
    /\ level_int' = [level_int EXCEPT ![t] = 0]
    /\ UNCHANGED <<cell, l, LOGGER, max_level, registered, disk, created, mutex, stderr,
                   init_flags, todo, inits, nflush, first_flags, init_no, ext_calls>>

\* Mutant of write_file_nl: the guard of the loop body outlives the iteration
\* (as if bound outside the loop).
write_file_nl_keep_guard(t) ==
    /\ pc[t] = "write_nl"
    /\ LET self == unwrap(LOGGER)
           path == self.file_writer[get_by_right(self, level_int[t])]
       IN disk' = [disk EXCEPT ![path] = Append(@, Chunk("nl", rec[t].args, ""))]
    /\ level_int' = [level_int EXCEPT ![t] = @ + 1]
    /\ pc' = [pc EXCEPT ![t] = "write_file"]
    /\ UNCHANGED <<cell, l, LOGGER, max_level, registered, created, stderr, mutex,
                   rec, init_flags, todo, calls, inits, nflush, first_flags, init_no, ext_calls>>

\* The second write, the newline; the guard drops at the end of the loop body
\* and the loop goes on to the next rank.
write_file_nl(t) ==
    /\ pc[t] = "write_nl"
    /\ LET self == unwrap(LOGGER)
           path == self.file_writer[get_by_right(self, level_int[t])]
       IN /\ disk' = [disk EXCEPT ![path] = Append(@, Chunk("nl", rec[t].args, ""))]
          /\ mutex' = [mutex EXCEPT ![path] = "free"]
    /\ level_int' = [level_int EXCEPT ![t] = @ + 1]
    /\ pc' = [pc EXCEPT ![t] = "write_file"]
    /\ UNCHANGED <<cell, l, LOGGER, max_level, registered, created, stderr,
                   rec, init_flags, todo, calls, inits, nflush, first_flags, init_no, ext_calls>>

\* The file the backtrace goes to.
backtrace_level(self) == match_level(self, LevelFrom(self.flags.minloglevel))

\* After the loop. With no backtrace due, write_file returns; otherwise the
\* file of match_level(minloglevel) is locked, the trace written to it, and
\* the guard dropped.
write_file_loop_end(t) ==
    /\ pc[t] = "write_file"
    /\ LET self == unwrap(LOGGER)
           level == backtrace_level(self)
       IN /\ level_int[t] > write_file_last(self, rec[t])
          /\ IF ~should_log_backtrace(self, rec[t].file, rec[t].line)
             THEN /\ pc' = [pc EXCEPT ![t] = "write_sinks"]
                  /\ UNCHANGED <<disk, calls, rec, level_int>>
             ELSE IF level \in DOMAIN self.file_writer
             THEN /\ can_lock(self.file_writer[level])
                  /\ disk' = [disk EXCEPT ![self.file_writer[level]] =
                                 Append(@, Chunk("backtrace", rec[t].args, ""))]
                  /\ pc' = [pc EXCEPT ![t] = "write_sinks"]
                  /\ UNCHANGED <<calls, rec, level_int>>
             ELSE /\ calls' = [calls EXCEPT ![rec[t].args].status = "unwrap_none"]
                  /\ pc' = [pc EXCEPT ![t] = "panicked"]
                  /\ rec' = [rec EXCEPT ![t] = NoRecord]
                  /\ level_int' = [level_int EXCEPT ![t] = 0]
                  /\ UNCHANGED disk
    /\ UNCHANGED <<cell, l, LOGGER, max_level, registered, created, mutex, stderr,
                   init_flags, todo, inits, first_flags, nflush, init_no, ext_calls>>

\* write_sinks() and the return of log_internal: Log::log returns to its
\* caller, fatal! goes on to panic!().
log_internal_return(t) ==
    /\ pc[t] = "write_sinks"
    /\ LET ev == rec[t].args
       IN IF calls[ev].op = "fatal"
          THEN /\ calls' = [calls EXCEPT ![ev].status = "panic"]
               /\ pc' = [pc EXCEPT ![t] = "panicked"]
          ELSE /\ calls' = [calls EXCEPT ![ev].status = "returned"]
               /\ pc' = [pc EXCEPT ![t] = "idle"]
    /\ rec' = [rec EXCEPT ![t] = NoRecord]
    /\ level_int' = [level_int EXCEPT ![t] = 0]
    /\ UNCHANGED <<cell, l, LOGGER, max_level, registered, disk, created, mutex, stderr,
                   init_flags, todo, inits, nflush, first_flags, init_no, ext_calls>>

\* ------------------------------------------------------------------ flush

\* Log::flush: the thread's stderr handle is flushed, then every file of
\* file_writer.values(), in the HashMap's arbitrary order.
flush(t) ==
    /\ caller(t)
    /\ Ops < MaxOps
    /\ registered
    /\ nflush' = nflush + 1
    /\ LET self == unwrap(LOGGER)
       IN /\ todo' = [todo EXCEPT ![t] = DOMAIN self.file_writer]
          /\ pc' = [pc EXCEPT ![t] = IF DOMAIN self.file_writer = {} THEN "idle" ELSE "flush"]
    /\ UNCHANGED <<cell, l, LOGGER, max_level, registered, disk, created, mutex, stderr,
                   rec, level_int, init_flags, calls, inits, first_flags, init_no, ext_calls>>

\* One turn of flush's loop: lock the file, flush it, drop the guard.
flush_file(t) ==
    /\ pc[t] = "flush"
    /\ \E level \in todo[t] :
          /\ can_lock(unwrap(LOGGER).file_writer[level])
          /\ todo' = [todo EXCEPT ![t] = @ \ {level}]
          /\ pc' = [pc EXCEPT ![t] = IF todo[t] = {level} THEN "idle" ELSE "flush"]
    /\ UNCHANGED <<cell, l, LOGGER, max_level, registered, disk, created, mutex, stderr,
                   rec, level_int, init_flags, calls, inits, nflush, first_flags, init_no, ext_calls>>

\* ------------------------------------------- the guards, step by step
\* The same code with the lifetime of each MutexGuard made visible: the steps
\* that take a file's lock outside write_file's loop, and the drop of the
\* guard, are taken apart.

\* After write_file's loop with no backtrace due: write_file returns.
write_file_return(t) ==
    /\ pc[t] = "write_file"
    /\ LET self == unwrap(LOGGER)
       IN /\ level_int[t] > write_file_last(self, rec[t])
          /\ ~should_log_backtrace(self, rec[t].file, rec[t].line)
    /\ pc' = [pc EXCEPT ![t] = "write_sinks"]
    /\ UNCHANGED <<cell, l, LOGGER, max_level, registered, disk, created, mutex, stderr,
                   rec, level_int, init_flags, todo, calls, inits, first_flags, nflush, init_no,
                   ext_calls>>

\* After the loop with a backtrace due: file_writer.get(&level).unwrap()
\* .lock().unwrap() on the file of match_level(minloglevel) and the write of
\* the trace; unwrap() of None panics.
write_file_backtrace(t) ==
    /\ pc[t] = "write_file"
    /\ LET self == unwrap(LOGGER)
           level == backtrace_level(self)
       IN /\ level_int[t] > write_file_last(self, rec[t])
          /\ should_log_backtrace(self, rec[t].file, rec[t].line)
          /\ IF level \in DOMAIN self.file_writer
             THEN /\ can_lock(self.file_writer[level])
                  /\ mutex' = [mutex EXCEPT ![self.file_writer[level]] = t]
                  /\ disk' = [disk EXCEPT ![self.file_writer[level]] =
                                 Append(@, Chunk("backtrace", rec[t].args, ""))]
                  /\ pc' = [pc EXCEPT ![t] = "backtrace_guard"]
                  /\ UNCHANGED <<calls, rec, level_int>>
             ELSE /\ calls' = [calls EXCEPT ![rec[t].args].status = "unwrap_none"]
                  /\ pc' = [pc EXCEPT ![t] = "panicked"]
                  /\ rec' = [rec EXCEPT ![t] = NoRecord]
                  /\ level_int' = [level_int EXCEPT ![t] = 0]
                  /\ UNCHANGED <<disk, mutex>>
    /\ UNCHANGED <<cell, l, LOGGER, max_level, registered, created, stderr,
                   init_flags, todo, inits, first_flags, nflush, init_no, ext_calls>>

\* The end of the backtrace block: the guard drops and write_file returns.
write_file_backtrace_drop(t) ==
    /\ pc[t] = "backtrace_guard"
    /\ mutex' = [path \in DOMAIN mutex |-> IF mutex[path] = t THEN "free" ELSE mutex[path]]
    /\ pc' = [pc EXCEPT ![t] = "write_sinks"]
    /\ UNCHANGED <<cell, l, LOGGER, max_level, registered, disk, created, stderr,
                   rec, level_int, init_flags, todo, calls, inits, first_flags, nflush, init_no,
                   ext_calls>>

\* One turn of flush's loop up to the flush of the file: file.lock().unwrap()
\* and file_writer.flush().
flush_file_lock(t) ==
    /\ pc[t] = "flush"
    /\ \E level \in todo[t] :
          /\ can_lock(unwrap(LOGGER).file_writer[level])
          /\ mutex' = [mutex EXCEPT ![unwrap(LOGGER).file_writer[level]] = t]
          /\ todo' = [todo EXCEPT ![t] = @ \ {level}]
    /\ pc' = [pc EXCEPT ![t] = "flush_guard"]
    /\ UNCHANGED <<cell, l, LOGGER, max_level, registered, disk, created, stderr,
                   rec, level_int, init_flags, calls, inits, nflush, first_flags, init_no,
                   ext_calls>>

\* Mutant of flush_file_drop: the loop goes on with file_guard still alive
\* (as if the guard were leaked).
flush_file_drop_leak(t) ==
    /\ pc[t] = "flush_guard"
    /\ mutex' = mutex
    /\ pc' = [pc EXCEPT ![t] = IF todo[t] = {} THEN "idle" ELSE "flush"]
    /\ UNCHANGED <<cell, l, LOGGER, max_level, registered, disk, created, stderr,
                   rec, level_int, init_flags, todo, calls, inits, nflush, first_flags, init_no,
                   ext_calls>>

\* The end of the loop body: file_guard drops, and the loop goes on to the
\* next file or flush returns.
flush_file_drop(t) ==
    /\ pc[t] = "flush_guard"
    /\ mutex' = [path \in DOMAIN mutex |-> IF mutex[path] = t THEN "free" ELSE mutex[path]]
    /\ pc' = [pc EXCEPT ![t] = IF todo[t] = {} THEN "idle" ELSE "flush"]
    /\ UNCHANGED <<cell, l, LOGGER, max_level, registered, disk, created, stderr,
                   rec, level_int, init_flags, todo, calls, inits, nflush, first_flags, init_no,
                   ext_calls>>

\* ------------------------------------------------------ file I/O that fails
\* File::create, write_fmt and flush can return Err at any call. A thread
\* that panics while it holds a MutexGuard leaves the Mutex poisoned: the
\* lock is free again and every later lock() on it returns Err.

\* write_file_header when File::create fails (no file), when the header's
\* write_fmt fails (the file created and empty) or when file.flush() fails
\* (the header written): panic!/expect inside the get_or_init closure. The
\* closure unwinds, l is dropped with the handles it held, and the cell is
\* left uninitialized.
write_file_header_fails(t) ==
    /\ pc[t] = "create_log_files"
    /\ LET self == unwrap(l)
           path == log_file_path(self, create_log_files_next(self))
       IN \E failed \in {"create", "write_fmt", "flush"} :
              IF failed = "create"
              THEN UNCHANGED <<disk, created, mutex>>
              ELSE /\ disk' = Put(disk, path, IF failed = "write_fmt" THEN <<>>
                                             ELSE <<Chunk("header", 0, file_header(self))>>)
                   /\ created' = Append(created, path)
                   /\ mutex' = Put(mutex, path, "free")
    /\ cell' = "uninit"
    /\ l' = NoneV
    /\ inits' = [inits EXCEPT ![init_no[t]].result = "panic"]
    /\ init_no' = [init_no EXCEPT ![t] = 0]
    /\ init_flags' = [init_flags EXCEPT ![t] = FlagsDefault]
    /\ pc' = [pc EXCEPT ![t] = "panicked"]
    /\ UNCHANGED <<LOGGER, max_level, registered, stderr, rec, level_int, todo, calls,
                   nflush, first_flags, ext_calls>>

\* A caller blocked in get_or_init when the running closure has panicked: the
\* cell is uninitialized again and the caller runs its own closure, with the
\* flags it was called with (of which the history has kept whether they differ
\* from the first call's).
get_or_init_retry(t, flags) ==
    /\ pc[t] = "get_or_init"
    /\ get_or_init(cell) = "run"
    /\ inits[init_no[t]].other_flags = (Some(flags) # first_flags)
    /\ inits' = [inits EXCEPT ![init_no[t]].ran = TRUE]
    /\ init_closure_begin(t, flags)
    /\ UNCHANGED <<max_level, registered, disk, created, mutex, stderr, rec, level_int,
                   todo, calls, nflush, first_flags, init_no, ext_calls>>

\* Mutant of write_file_poisoned: the poisoned lock is taken all the same (the
\* guard recovered from the PoisonError) and the message written.
write_file_poisoned_recovered(t) ==
    /\ pc[t] = "write_file"
    /\ LET self == unwrap(LOGGER)
           level == get_by_right(self, level_int[t])
       IN /\ level_int[t] <= write_file_last(self, rec[t])
          /\ level \in DOMAIN self.file_writer
          /\ mutex[self.file_writer[level]] = "poisoned"
          /\ mutex' = [mutex EXCEPT ![self.file_writer[level]] = t]
          /\ disk' = [disk EXCEPT ![self.file_writer[level]] =
                         Append(@, Chunk("msg", rec[t].args, build_log_message(self, rec[t])))]
    /\ pc' = [pc EXCEPT ![t] = "write_nl"]
    /\ UNCHANGED <<cell, l, LOGGER, max_level, registered, created, stderr, calls,
                   rec, level_int, init_flags, todo, inits, nflush, first_flags, init_no, ext_calls>>

\* Top of write_file's loop when the file's Mutex is poisoned: lock() returns
\* Err and unwrap() panics.
write_file_poisoned(t) ==
    /\ pc[t] = "write_file"
    /\ LET self == unwrap(LOGGER)
           level == get_by_right(self, level_int[t])
       IN /\ level_int[t] <= write_file_last(self, rec[t])
          /\ level \in DOMAIN self.file_writer
          /\ mutex[self.file_writer[level]] = "poisoned"
    /\ calls' = [calls EXCEPT ![rec[t].args].status = "panic"]
    /\ pc' = [pc EXCEPT ![t] = "panicked"]
    /\ rec' = [rec EXCEPT ![t] = NoRecord]
    /\ level_int' = [level_int EXCEPT ![t] = 0]
    /\ UNCHANGED <<cell, l, LOGGER, max_level, registered, disk, created, mutex, stderr,
                   init_flags, todo, inits, nflush, first_flags, init_no, ext_calls>>

\* The same place when the lock is taken and the write of the message fails:
\* panic!("couldn't write log message to file ..") with the guard alive.
write_file_msg_fails(t) ==
    /\ pc[t] = "write_file"
    /\ LET self == unwrap(LOGGER)
           level == get_by_right(self, level_int[t])
       IN /\ level_int[t] <= write_file_last(self, rec[t])
          /\ level \in DOMAIN self.file_writer
          /\ can_lock(self.file_writer[level])
          /\ mutex' = [mutex EXCEPT ![self.file_writer[level]] = "poisoned"]
    /\ calls' = [calls EXCEPT ![rec[t].args].status = "panic"]
    /\ pc' = [pc EXCEPT ![t] = "panicked"]
    /\ rec' = [rec EXCEPT ![t] = NoRecord]
    /\ level_int' = [level_int EXCEPT ![t] = 0]
    /\ UNCHANGED <<cell, l, LOGGER, max_level, registered, disk, created, stderr,
                   init_flags, todo, inits, nflush, first_flags, init_no, ext_calls>>

\* The write of the newline fails: the same panic!, the message already in
\* the file.
write_file_nl_fails(t) ==
    /\ pc[t] = "write_nl"
    /\ LET self == unwrap(LOGGER)
           path == self.file_writer[get_by_right(self, level_int[t])]
       IN mutex' = [mutex EXCEPT ![path] = "poisoned"]
    /\ calls' = [calls EXCEPT ![rec[t].args].status = "panic"]
    /\ pc' = [pc EXCEPT ![t] = "panicked"]
    /\ rec' = [rec EXCEPT ![t] = NoRecord]
    /\ level_int' = [level_int EXCEPT ![t] = 0]
    /\ UNCHANGED <<cell, l, LOGGER, max_level, registered, disk, created, stderr,
                   init_flags, todo, inits, nflush, first_flags, init_no, ext_calls>>

\* A turn of flush's loop on a file whose Mutex is poisoned: file.lock()
\* .unwrap() panics.
flush_file_poisoned(t) ==
    /\ pc[t] = "flush"
    /\ \E level \in todo[t] : mutex[unwrap(LOGGER).file_writer[level]] = "poisoned"
    /\ todo' = [todo EXCEPT ![t] = {}]
    /\ pc' = [pc EXCEPT ![t] = "panicked"]
    /\ UNCHANGED <<cell, l, LOGGER, max_level, registered, disk, created, mutex, stderr,
                   rec, level_int, init_flags, calls, inits, nflush, first_flags, init_no,
                   ext_calls>>

\* A turn of flush's loop in which file_writer.flush() fails:
\* expect("couldn't sync log to disk") panics with file_guard alive.
flush_file_fails(t) ==
    /\ pc[t] = "flush"
    /\ \E level \in todo[t] :
          /\ can_lock(unwrap(LOGGER).file_writer[level])
          /\ mutex' = [mutex EXCEPT ![unwrap(LOGGER).file_writer[level]] = "poisoned"]
    /\ todo' = [todo EXCEPT ![t] = {}]
    /\ pc' = [pc EXCEPT ![t] = "panicked"]
    /\ UNCHANGED <<cell, l, LOGGER, max_level, registered, disk, created, stderr,
                   rec, level_int, init_flags, calls, inits, nflush, first_flags, init_no,
                   ext_calls>>

\* --------------------------------------- a record whose formatting logs
\* record.args is formatted by build_log_message, which write_stderr calls
\* with the thread's StandardStream borrowed (borrow_mut) and write_file with
\* the guard of the file alive. When the Display of an argument emits a log
\* event of its own, of the same severity and from the same site, that event
\* enters Log::log on the same thread in the middle of the outer write.

\* Log::log for such a record: as log, up to the entry of log_internal.
log_reentrant(t, level, file, line) ==
    /\ caller(t)
    /\ Ops < MaxOps
    /\ LET ev == Len(calls) + 1
           call == [op |-> "log_reentrant", level |-> LevelFrom(level),
                    file |-> record_to_file_name(file),
                    line |-> IF is_some(line) THEN unwrap(line) ELSE 0]
       IN IF ~registered
          THEN /\ calls' = Append(calls, call @@ [status |-> "nop"])
               /\ UNCHANGED <<pc, rec, level_int>>
          ELSE LET self == unwrap(LOGGER) IN
               IF ~enabled(self, level)
               THEN /\ calls' = Append(calls, call @@ [status |-> "filtered"])
                    /\ UNCHANGED <<pc, rec, level_int>>
               ELSE /\ calls' = Append(calls, call @@ [status |-> "running"])
                    /\ rec' = [rec EXCEPT ![t] = [line |-> call.line, args |-> ev,
                                                  file |-> call.file, level |-> call.level]]
                    /\ level_int' = [level_int EXCEPT ![t] = write_file_first(self)]
                    /\ pc' = [pc EXCEPT ![t] = log_internal_entry(self) \o "_reentrant"]
    /\ UNCHANGED <<cell, l, LOGGER, max_level, registered, disk, created, mutex, stderr,
                   init_flags, todo, inits, nflush, first_flags, init_no, ext_calls>>

\* The inner event as the history records it.
inner_call(ev, status) ==
    [op |-> "log", level |-> calls[ev].level, file |-> calls[ev].file,
     line |-> calls[ev].line, status |-> status]

\* write_stderr for such a record: the stream is borrowed and locked, the
\* colour set, and build_log_message runs the inner Log::log, whose
\* write_stderr calls borrow_mut() on the RefCell the outer call has borrowed:
\* BorrowMutError, a panic that unwinds through both calls.
write_stderr_reentrant(t) ==
    /\ pc[t] = "write_stderr_reentrant"
    /\ LET self == unwrap(LOGGER)
       IN stderr' = stderr \o
              (IF self.flags.colorlogtostderr
               THEN <<Chunk("set_color", rec[t].args, stderr_color(rec[t].level))>> ELSE <<>>)
    /\ calls' = Append([calls EXCEPT ![rec[t].args].status = "panic"],
                       inner_call(rec[t].args, "panic"))
    /\ pc' = [pc EXCEPT ![t] = "panicked"]
    /\ rec' = [rec EXCEPT ![t] = NoRecord]
    /\ level_int' = [level_int EXCEPT ![t] = 0]
    /\ UNCHANGED <<cell, l, LOGGER, max_level, registered, disk, created, mutex,
                   init_flags, todo, inits, nflush, first_flags, init_no, ext_calls>>

\* write_file for such a record, reached when nothing goes to stderr: the
\* first file of the cascade is locked, and build_log_message runs the inner
\* Log::log, whose write_file calls lock() on the Mutex its own thread holds.
\* std's Mutex is not re-entrant: the call never returns, or it panics (then
\* with the outer guard alive, which poisons the Mutex).
write_file_reentrant(t) ==
    /\ pc[t] = "write_file_reentrant"
    /\ LET self == unwrap(LOGGER)
           path == self.file_writer[get_by_right(self, level_int[t])]
       IN /\ can_lock(path)
          /\ \E outcome \in {"deadlock", "panic"} :
                IF outcome = "deadlock"
                THEN /\ mutex' = [mutex EXCEPT ![path] = t]
                     /\ calls' = Append(calls, inner_call(rec[t].args, "running"))
                     /\ pc' = [pc EXCEPT ![t] = "deadlocked"]
                     /\ UNCHANGED <<rec, level_int>>
                ELSE /\ mutex' = [mutex EXCEPT ![path] = "poisoned"]
                     /\ calls' = Append([calls EXCEPT ![rec[t].args].status = "panic"],
                                        inner_call(rec[t].args, "panic"))
                     /\ pc' = [pc EXCEPT ![t] = "panicked"]
                     /\ rec' = [rec EXCEPT ![t] = NoRecord]
                     /\ level_int' = [level_int EXCEPT ![t] = 0]
    /\ UNCHANGED <<cell, l, LOGGER, max_level, registered, disk, created, stderr,
                   init_flags, todo, inits, nflush, first_flags, init_no, ext_calls>>

\* -------------------------------------------- builder calls while Ready

\* A builder method called on the initialized logger. LOGGER hands out shared
\* references only and the method works on a Glogger taken by value, so what
\* it returns is a value of the caller's; the Glogger in the cell is not
\* written.
builder_call(op, arg, result) == [op |-> op, arg |-> arg, result |-> result, at |-> Len(calls)]

logger_with_year(t, with_year_arg) ==
    /\ caller(t)
    /\ Ops < MaxOps
    /\ is_some(LOGGER)
    /\ ext_calls' = Append(ext_calls,
           builder_call("with_year", with_year_arg, with_year(unwrap(LOGGER), with_year_arg)))
    /\ UNCHANGED <<cell, l, LOGGER, max_level, registered, disk, created, mutex, stderr,
                   pc, rec, level_int, init_flags, init_no, todo, calls, inits,
                   first_flags, nflush>>

logger_reduced_log_levels(t, limit_abbreviations) ==
    /\ caller(t)
    /\ Ops < MaxOps
    /\ is_some(LOGGER)
    /\ ext_calls' = Append(ext_calls,
           builder_call("reduced_log_levels", limit_abbreviations,
                        reduced_log_levels(unwrap(LOGGER), limit_abbreviations)))
    /\ UNCHANGED <<cell, l, LOGGER, max_level, registered, disk, created, mutex, stderr,
                   pc, rec, level_int, init_flags, init_no, todo, calls, inits,
                   first_flags, nflush>>

logger_set_application_fingerprint(t, fingerprint) ==
    /\ caller(t)
    /\ Ops < MaxOps
    /\ is_some(LOGGER)
    /\ ext_calls' = Append(ext_calls,
           builder_call("set_application_fingerprint", fingerprint,
                        set_application_fingerprint(unwrap(LOGGER), fingerprint)))
    /\ UNCHANGED <<cell, l, LOGGER, max_level, registered, disk, created, mutex, stderr,
                   pc, rec, level_int, init_flags, init_no, todo, calls, inits,
                   first_flags, nflush>>

\* ---------------------------------------------------------- specification

\* The inputs of the calls.
FlagsIn ==
    [colorlogtostderr : {FALSE},
     minloglevel      : LogLevels,
     log_backtrace_at : {NoneV},
     logtostderr      : BOOLEAN,
     alsologtostderr  : BOOLEAN,
     log_dir          : {TempDir}]

FilesIn == {<<"src", "main.rs">>}
LinesIn == {20}

Next ==
    \E t \in Threads :
        \/ \E flags \in FlagsIn : init(t, flags)
        \/ get_or_init_wake(t)
        \/ write_file_header(t)
        \/ init_closure_end(t)
        \/ set_logger(t)
        \/ \E level \in LogLevels, file \in FilesIn, line \in LinesIn :
               log(t, level, Some(file), Some(line))
        \/ \E file \in FilesIn, line \in LinesIn : fatal(t, file, line)
        \/ write_stderr(t)
        \/ write_file_no_writer(t)
        \/ write_file_msg(t)
        \/ write_file_nl(t)
        \/ write_file_loop_end(t)
        \/ log_internal_return(t)
        \/ flush(t)
        \/ flush_file(t)

Spec == Init /\ [][Next]_vars

\* ------------------------------------- specification with a backtrace trigger

\* The trigger of the flags documentation, "filename:line".
TriggerIn == "main.rs:20"

\* Flags with and without log_backtrace_at.
\* logtostderr and alsologtostderr both set behaves as logtostderr alone
\* (log_internal) and is left to Spec.
FlagsBt ==
    {flags \in [colorlogtostderr : {FALSE},
                minloglevel      : {"Warn", "Info", "Debug"},
                log_backtrace_at : {NoneV, Some(TriggerIn)},
                logtostderr      : BOOLEAN,
                alsologtostderr  : BOOLEAN,
                log_dir          : {TempDir}] :
        ~(flags.logtostderr /\ flags.alsologtostderr)}

\* Call sites: the trigger's own, one that differs in the line, one that
\* differs in the file.
SitesBt == {<<<<"src", "main.rs">>, 20>>, <<<<"src", "main.rs">>, 21>>, <<<<"src", "lib.rs">>, 20>>}
LevelsBt == {"Error", "Debug"}

\* The log calls made: Error from each site, Debug from the trigger's site.
CallsBt == {c \in LevelsBt \X SitesBt : c[1] = "Debug" => c[2] = <<<<"src", "main.rs">>, 20>>}

NextBt ==
    \E t \in Threads :
        \/ \E flags \in FlagsBt : init(t, flags)
        \/ get_or_init_wake(t)
        \/ write_file_header(t)
        \/ init_closure_end(t)
        \/ set_logger(t)
        \/ \E c \in CallsBt : log(t, c[1], Some(c[2][1]), Some(c[2][2]))
        \/ fatal(t, <<"src", "main.rs">>, 20)
        \/ write_stderr(t)
        \/ write_file_no_writer(t)
        \/ write_file_msg(t)
        \/ write_file_nl(t)
        \/ write_file_loop_end(t)
        \/ log_internal_return(t)

SpecBt == Init /\ [][NextBt]_vars

\* ------------------- specification with a log directory and builder calls

OtherDir == "/var/log/"

FlagsCfg ==
    [colorlogtostderr : {FALSE},
     minloglevel      : {"Info", "Trace"},
     log_backtrace_at : {NoneV},
     logtostderr      : BOOLEAN,
     alsologtostderr  : {FALSE},
     log_dir          : {TempDir, OtherDir}]

LevelsCfg == {"Warn", "Info", "Debug", "Trace"}

NextCfg ==
    \E t \in Threads :
        \/ \E flags \in FlagsCfg : init(t, flags)
        \/ get_or_init_wake(t)
        \/ write_file_header(t)
        \/ init_closure_end(t)
        \/ set_logger(t)
        \/ logger_with_year(t, TRUE)
        \/ logger_reduced_log_levels(t, FALSE)
        \/ logger_set_application_fingerprint(t, "Example")
        \/ \E level \in LevelsCfg : log(t, level, Some(<<"src", "main.rs">>), Some(20))
        \/ fatal(t, <<"src", "main.rs">>, 20)
        \/ write_stderr(t)
        \/ write_file_no_writer(t)
        \/ write_file_msg(t)
        \/ write_file_nl(t)
        \/ write_file_loop_end(t)
        \/ log_internal_return(t)
        \/ flush(t)
        \/ flush_file(t)

SpecCfg == Init /\ [][NextCfg]_vars

\* ------------------------- specification with every guard's lifetime visible

FlagsLocks ==
    [colorlogtostderr : {FALSE},
     minloglevel      : {"Info"},
     log_backtrace_at : {NoneV, Some(TriggerIn)},
     logtostderr      : {FALSE},
     alsologtostderr  : BOOLEAN,
     log_dir          : {TempDir}]

LevelsLocks == {"Error", "Info"}

\* What a thread does once a call is under way.
StepLocks(t) ==
    \/ get_or_init_wake(t)
    \/ write_file_header(t)
    \/ init_closure_end(t)
    \/ set_logger(t)
    \/ write_stderr(t)
    \/ write_file_msg(t)
    \/ write_file_nl(t)
    \/ write_file_return(t)
    \/ write_file_backtrace(t)
    \/ write_file_backtrace_drop(t)
    \/ log_internal_return(t)
    \/ flush_file_lock(t)
    \/ flush_file_drop(t)

NextLocks ==
    \E t \in Threads :
        \/ \E flags \in FlagsLocks : init(t, flags)
        \/ \E level \in LevelsLocks : log(t, level, Some(<<"src", "main.rs">>), Some(20))
        \/ flush(t)
        \/ get_or_init_wake(t)
        \/ write_file_header(t)
        \/ init_closure_end(t)
        \/ set_logger(t)
        \/ write_stderr(t)
        \/ write_file_msg(t)
        \/ write_file_nl(t)
        \/ write_file_return(t)
        \/ write_file_backtrace(t)
        \/ write_file_backtrace_drop(t)
        \/ log_internal_return(t)
        \/ flush_file_lock(t)
        \/ flush_file_drop(t)

SpecLocks == Init /\ [][NextLocks]_vars

\* The scheduler is fair to every thread: a thread that can go on with its
\* call does so.
FairSpecLocks == SpecLocks /\ \A t \in Threads : WF_vars(StepLocks(t))

\* ----------------------------------- specification with file I/O that fails

FlagsIo ==
    [colorlogtostderr : {FALSE},
     minloglevel      : {"Info", "Warn"},
     log_backtrace_at : {NoneV},
     logtostderr      : {FALSE},
     alsologtostderr  : {FALSE},
     log_dir          : {TempDir}]

LevelsIo == {"Warn", "Info"}

NextIo ==
    \E t \in Threads :
        \/ \E flags \in FlagsIo : init(t, flags)
        \/ get_or_init_wake(t)
        \/ \E flags \in FlagsIo : get_or_init_retry(t, flags)
        \/ write_file_header(t)
        \/ write_file_header_fails(t)
        \/ init_closure_end(t)
        \/ set_logger(t)
        \/ \E level \in LevelsIo : log(t, level, Some(<<"src", "main.rs">>), Some(20))
        \/ write_file_msg(t)
        \/ write_file_msg_fails(t)
        \/ write_file_poisoned(t)
        \/ write_file_nl(t)
        \/ write_file_nl_fails(t)
        \/ write_file_loop_end(t)
        \/ log_internal_return(t)
        \/ flush(t)
        \/ flush_file(t)
        \/ flush_file_fails(t)
        \/ flush_file_poisoned(t)

SpecIo == Init /\ [][NextIo]_vars

\* ------------------------- specification of the stderr output, with colour

\* Triggers that name a call site, no file, or no line.
FlagsErr ==
    [colorlogtostderr : BOOLEAN,
     minloglevel      : {"Info"},
     log_backtrace_at : {NoneV, Some(TriggerIn), Some("main.rs:0"), Some(":0")},
     logtostderr      : {TRUE},
     alsologtostderr  : {FALSE},
     log_dir          : {TempDir}]

LevelsErr == {"Error", "Warn", "Info"}

\* What a facade record carries as file and as line: log's macros fill both,
\* a record built by hand may leave either out.
FilesErr == {NoneV, Some(<<"src", "main.rs">>)}
LinesErr == {NoneV, Some(20)}

NextErr ==
    \E t \in Threads :
        \/ \E flags \in FlagsErr : init(t, flags)
        \/ get_or_init_wake(t)
        \/ init_closure_end(t)
        \/ set_logger(t)
        \/ \E level \in LevelsErr, file \in FilesErr, line \in LinesErr : log(t, level, file, line)
        \/ fatal(t, <<"src", "main.rs">>, 20)
        \/ write_stderr(t)
        \/ log_internal_return(t)

SpecErr == Init /\ [][NextErr]_vars

\* ------------------------ specification with records whose formatting logs

FlagsRe ==
    {flags \in [colorlogtostderr : BOOLEAN,
                minloglevel      : {"Warn"},
                log_backtrace_at : {NoneV},
                logtostderr      : BOOLEAN,
                alsologtostderr  : BOOLEAN,
                log_dir          : {TempDir}] :
        ~(flags.logtostderr /\ flags.alsologtostderr)}

LevelsRe == {"Error", "Info"}

NextRe ==
    \E t \in Threads :
        \/ \E flags \in FlagsRe : init(t, flags)
        \/ get_or_init_wake(t)
        \/ write_file_header(t)
        \/ init_closure_end(t)
        \/ set_logger(t)
        \/ \E level \in LevelsRe : log(t, level, Some(<<"src", "main.rs">>), Some(20))
        \/ \E level \in LevelsRe : log_reentrant(t, level, Some(<<"src", "main.rs">>), Some(20))
        \/ write_stderr(t)
        \/ write_stderr_reentrant(t)
        \/ write_file_msg(t)
        \/ write_file_poisoned(t)
        \/ write_file_nl(t)
        \/ write_file_reentrant(t)
        \/ write_file_loop_end(t)
        \/ log_internal_return(t)

SpecRe == Init /\ [][NextRe]_vars

\* ------------------------------------------------- vocabulary of the claims

\* A Ready logger: the cell holds the finished instance.
Ready == is_some(LOGGER)
Conf == unwrap(LOGGER).flags
FileWriter == unwrap(LOGGER).file_writer

\* The fixed rank of a severity, and the severity an event is filed under while
\* extended levels are off (Trace and Debug count as Info).
Rank(level) == LevelIntegers[level]
Effective(level) ==
    IF unwrap(LOGGER).compatible_verbosity /\ level \in {"Trace", "Debug"} THEN "Info" ELSE level

\* The complete lines of event ev in a file: its message directly followed by
\* its newline.
FileLines(path, ev) ==
    Cardinality({i \in 1..(Len(disk[path]) - 1) :
        /\ disk[path][i].kind = "msg" /\ disk[path][i].ev = ev
        /\ disk[path][i + 1].kind = "nl" /\ disk[path][i + 1].ev = ev})

InFile(path, ev) == \E i \in 1..Len(disk[path]) : disk[path][i].ev = ev
InSomeFile(ev) == \E path \in DOMAIN disk : InFile(path, ev)
OnStderr(ev) == \E i \in 1..Len(stderr) : stderr[i].ev = ev
StderrLines(ev) ==
    Cardinality({i \in 1..Len(stderr) : stderr[i].kind = "line" /\ stderr[i].ev = ev})

Events == 1..Len(calls)
Quiescent == \A t \in Threads : pc[t] \in {"idle", "panicked"}

\* ---------------------------------------------------------------------- C1

\* C1: on a Ready logger with file output, once a log call for an enabled event
\* of severity S has returned, each active file holds the event's line exactly
\* once if its rank lies between the minimum's rank and r(S) (ranks of the
\* effective severities), and holds nothing of the event otherwise.
C1_CascadingFanOut ==
    \A ev \in Events :
        (calls[ev].op = "log" /\ calls[ev].status = "returned" /\ ~Conf.logtostderr) =>
            \A level \in DOMAIN FileWriter :
                IF /\ Rank(Effective(Conf.minloglevel)) <= Rank(level)
                   /\ Rank(level) <= Rank(Effective(calls[ev].level))
                THEN /\ FileLines(FileWriter[level], ev) = 1
                     /\ Cardinality({i \in 1..Len(disk[FileWriter[level]]) :
                                        disk[FileWriter[level]][i].ev = ev}) = 2
                ELSE ~InFile(FileWriter[level], ev)

\* An Error event under minimum Info has returned and lies once in each of the
\* Info, Warn and Error files, while an Info event lies in the Info file only.
C1_Witness ==
    /\ Ready /\ ~Conf.logtostderr /\ Conf.minloglevel = "Info"
    /\ \E e1, e2 \in Events :
          /\ calls[e1].op = "log" /\ calls[e1].level = "Error" /\ calls[e1].status = "returned"
          /\ calls[e2].op = "log" /\ calls[e2].level = "Info" /\ calls[e2].status = "returned"
          /\ \A level \in {"Info", "Warn", "Error"} : FileLines(FileWriter[level], e1) = 1
          /\ FileLines(FileWriter["Info"], e2) = 1
          /\ ~InFile(FileWriter["Warn"], e2)

\* ---------------------------------------------------------------------- C2

\* The Error events that went through the installed logger.
ErrorEvents ==
    {ev \in Events : calls[ev].op = "log" /\ calls[ev].level = "Error" /\ calls[ev].status # "nop"}

\* A file's chunks form whole lines: every message is directly followed by its
\* own newline, save a last message whose writer still holds the file's lock.
WholeLines(path) ==
    \A i \in 1..Len(disk[path]) :
        /\ disk[path][i].kind = "msg" =>
              IF i < Len(disk[path])
              THEN disk[path][i + 1].kind = "nl" /\ disk[path][i + 1].ev = disk[path][i].ev
              ELSE \E t \in Threads :
                      mutex[path] = t /\ pc[t] = "write_nl" /\ rec[t].args = disk[path][i].ev
        /\ disk[path][i].kind = "nl" =>
              i > 1 /\ disk[path][i - 1].kind = "msg" /\ disk[path][i - 1].ev = disk[path][i].ev

\* C2: no write to a file tears a line, and once all threads are done every
\* file that receives Error events holds exactly one whole line per Error
\* event emitted (N threads times M events each).
C2_NoLostOrTornLine ==
    /\ \A path \in DOMAIN disk : WholeLines(path)
    /\ (Ready /\ Quiescent /\ ~Conf.logtostderr) =>
          \A level \in DOMAIN FileWriter :
              Rank(Effective(Conf.minloglevel)) <= Rank(level) =>
                  /\ \A ev \in ErrorEvents : FileLines(FileWriter[level], ev) = 1
                  /\ Cardinality({i \in 1..Len(disk[FileWriter[level]]) :
                         /\ disk[FileWriter[level]][i].kind = "msg"
                         /\ disk[FileWriter[level]][i].ev \in ErrorEvents})
                       = Cardinality(ErrorEvents)

\* Two Error events were emitted, both calls have returned, and the two lines
\* lie in opposite orders in the Info and the Warn file: they came from two
\* threads whose writes interleaved.
C2_Witness ==
    /\ Ready /\ Quiescent /\ ~Conf.logtostderr
    /\ \E e1, e2 \in ErrorEvents :
          /\ e1 # e2
          /\ calls[e1].status = "returned" /\ calls[e2].status = "returned"
          /\ \A level \in {"Info", "Warn", "Error"} : Len(disk[FileWriter[level]]) = 5
          /\ disk[FileWriter["Info"]][2].ev = e1
          /\ disk[FileWriter["Warn"]][2].ev = e2

\* ---------------------------------------------------------------------- C3

\* The files the active logger's map names, and whether File::create ran more
\* than once on any path.
CreatedSet == {created[i] : i \in 1..Len(created)}
CreatedOnce == \A i, j \in 1..Len(created) : created[i] = created[j] => i = j

\* C3: whatever init calls have been made, the active configuration is the
\* flags of the first call, and the log files are those the first call created:
\* each was created once, and they are exactly the files of the active map.
C3_IdempotentInit ==
    /\ CreatedOnce
    /\ Ready =>
          /\ Conf = unwrap(first_flags)
          /\ CreatedSet = {FileWriter[level] : level \in DOMAIN FileWriter}
          /\ (Conf.logtostderr => created = <<>>)

\* A later init call with other flags than the first has returned, and the
\* first call's three files are in place.
C3_Witness ==
    /\ Ready /\ Len(created) = 3
    /\ \E i \in 2..Len(inits) : inits[i].other_flags /\ inits[i].result # "pending"

\* ---------------------------------------------------------------------- C4

\* A finished instance: the first caller's flags, the whole rank table, and a
\* file for each level create_log_files covers when file output is on.
FullySetUp(g) ==
    /\ g.flags = unwrap(first_flags)
    /\ g.level_integers = LevelIntegers
    /\ DOMAIN g.file_writer =
          IF g.flags.logtostderr THEN {}
          ELSE {create_log_files_levels(g)[i] : i \in 1..Len(create_log_files_levels(g))}
    /\ \A level \in DOMAIN g.file_writer :
          g.file_writer[level] \in DOMAIN disk /\ Len(disk[g.file_writer[level]]) >= 1

\* C4: the construction step runs once (for the first caller, never again),
\* every init call that has come out of the cell finds the one finished
\* instance, and LOGGER.get() yields nothing until construction is over and
\* a fully set up instance from then on.
C4_ExactlyOnceInit ==
    /\ Cardinality({i \in 1..Len(inits) : inits[i].ran}) = IF inits = <<>> THEN 0 ELSE 1
    /\ Cardinality({t \in Threads : pc[t] \in {"create_log_files", "set_flags"}})
          = IF cell = "running" THEN 1 ELSE 0
    /\ Ready <=> cell = "done"
    /\ Ready => FullySetUp(unwrap(LOGGER))
    /\ \A i \in 1..Len(inits) : inits[i].result # "pending" => Ready
    /\ \A t \in Threads : pc[t] = "set_logger" => Ready

\* Concurrent first use: one thread is blocked in the cell while the winner
\* has created some of the files but not all, and LOGGER.get() is still None.
C4_Witness ==
    /\ cell = "running" /\ ~Ready
    /\ Len(created) \in {1, 2}
    /\ \E t \in Threads : pc[t] = "get_or_init"

\* ---------------------------------------------------------------------- C5

\* C5: no init call reports an error to its caller; a repeated call returns
\* Ok like the first.
C5_ReinitReportsNoError == \A i \in 1..Len(inits) : inits[i].result # "Err"

\* ---------------------------------------------------------------------- C6

\* C6: with file output enabled, a file exists for severity S exactly when S
\* lies between the configured minimum and Fatal (Trace and Debug only with
\* extended levels).
C6_FileSetAtInit ==
    (Ready /\ ~Conf.logtostderr) =>
        \A level \in Levels \ {"Verbose"} :
            level \in DOMAIN FileWriter <=>
                /\ Rank(LevelFrom(Conf.minloglevel)) <= Rank(level)
                /\ Rank(level) <= Rank("Fatal")
                /\ (level \in {"Trace", "Debug"} => ~unwrap(LOGGER).compatible_verbosity)

\* ---------------------------------------------------------------------- C7

\* C7: when a fatal! on a Ready logger has stopped its thread, the event's
\* line is on stderr if stderr is in use, and lies whole in a file of every
\* rank from the minimum's up to Fatal's if file output is on.
C7_FatalFullFanOut ==
    \A ev \in Events :
        (calls[ev].op = "fatal" /\ calls[ev].status \in {"panic", "unwrap_none"}) =>
            /\ (Conf.logtostderr \/ Conf.alsologtostderr) => StderrLines(ev) = 1
            /\ ~Conf.logtostderr =>
                  \A level \in Levels :
                      (/\ Rank(Effective(Conf.minloglevel)) <= Rank(level)
                       /\ Rank(level) <= Rank("Fatal")) =>
                          /\ level \in DOMAIN FileWriter
                          /\ FileLines(FileWriter[level], ev) = 1

\* ---------------------------------------------------------------------- C8

\* C8: control never proceeds past a fatal!, whatever the state of the logger:
\* no fatal! call leaves its thread free to go on.
C8_FatalAlwaysStops == \A ev \in Events : calls[ev].op = "fatal" => calls[ev].status # "skipped"

\* ---------------------------------------------------------------------- C9

\* C9: an event the installed logger receives at a severity below minloglevel
\* is dropped and reaches neither stderr nor any file; one at or above
\* minloglevel is taken on, and written by the time the call returns.
C9_MinLevelFilter ==
    \A ev \in Events :
        (calls[ev].op = "log" /\ calls[ev].status # "nop") =>
            IF Rank(calls[ev].level) < Rank(LevelFrom(Conf.minloglevel))
            THEN calls[ev].status = "filtered" /\ ~OnStderr(ev) /\ ~InSomeFile(ev)
            ELSE /\ calls[ev].status \in {"running", "returned"}
                 /\ calls[ev].status = "returned" => (OnStderr(ev) \/ InSomeFile(ev))

\* One event below the minimum has been dropped, one exactly at the minimum
\* has been written and its call has returned.
C9_Witness ==
    /\ Ready
    /\ \E e1, e2 \in Events :
          /\ calls[e1].op = "log" /\ calls[e1].status = "filtered"
          /\ Rank(calls[e1].level) < Rank(LevelFrom(Conf.minloglevel))
          /\ calls[e2].op = "log" /\ calls[e2].status = "returned"
          /\ calls[e2].level = LevelFrom(Conf.minloglevel)
          /\ (OnStderr(e2) \/ InSomeFile(e2))

\* --------------------------------------------------------------------- C10

\* The events that entered log_internal.
Dispatched == {ev \in Events : calls[ev].status \in {"running", "returned", "panic", "unwrap_none"}}

\* C10: files exist exactly when logtostderr is clear; an event is on stderr
\* only if logtostderr or alsologtostderr is set and in a file only if
\* logtostderr is clear; once log_internal has returned it is on stderr
\* exactly when one of the two flags is set and in the files exactly when
\* logtostderr is clear; and no log call finds its file missing.
C10_DestinationSelection ==
    Ready =>
        /\ (DOMAIN FileWriter # {}) <=> ~Conf.logtostderr
        /\ (created # <<>>) <=> ~Conf.logtostderr
        /\ \A ev \in Dispatched :
              /\ OnStderr(ev) => (Conf.logtostderr \/ Conf.alsologtostderr)
              /\ InSomeFile(ev) => ~Conf.logtostderr
              /\ calls[ev].status \in {"returned", "panic"} =>
                    /\ (StderrLines(ev) = 1) <=> (Conf.logtostderr \/ Conf.alsologtostderr)
                    /\ InSomeFile(ev) <=> ~Conf.logtostderr
              /\ calls[ev].op = "log" => calls[ev].status # "unwrap_none"

\* With both flags set an event has gone to stderr alone, no file having been
\* created; the call has returned.
C10_Witness ==
    /\ Ready /\ Conf.logtostderr /\ Conf.alsologtostderr /\ created = <<>>
    /\ \E ev \in Events :
          calls[ev].op = "log" /\ calls[ev].status = "returned" /\ StderrLines(ev) = 1

\* --------------------------------------------- vocabulary of the backtrace

\* The string "<file>:<line>" of an event, and whether it equals the trigger.
EventSite(ev) == calls[ev].file \o ":" \o U32ToString(calls[ev].line)
AtTrigger(ev) ==
    is_some(Conf.log_backtrace_at) /\ EventSite(ev) = unwrap(Conf.log_backtrace_at)

TraceOnStderr(ev) ==
    \E i \in 1..Len(stderr) : stderr[i].kind = "backtrace" /\ stderr[i].ev = ev
TraceInFile(path, ev) ==
    \E i \in 1..Len(disk[path]) : disk[path][i].kind = "backtrace" /\ disk[path][i].ev = ev
HasTrace(ev) == TraceOnStderr(ev) \/ \E path \in DOMAIN disk : TraceInFile(path, ev)

\* The events log_internal was entered for and is over with.
Finished == {ev \in Events : calls[ev].status \in {"returned", "panic", "unwrap_none"}}

\* Whether a log event passes the minimum-severity filter.
PassesFilter(ev) == Rank(calls[ev].level) >= Rank(LevelFrom(Conf.minloglevel))

\* --------------------------------------------------------------------- C11

\* C11: for an event the logger has taken on and is done with, a stack trace
\* has been appended if and only if a trigger is configured and the event's
\* "<file>:<line>" equals it exactly; with no trigger, or with another file or
\* another line, none is appended.
C11_TriggerExactness ==
    \A ev \in Finished : HasTrace(ev) <=> AtTrigger(ev)

\* --------------------------------------------------------------------- C12

\* C12: the trigger check is independent of the minimum-severity filter: a log
\* event at the trigger's file:line gets its trace even when its severity is
\* below the configured minimum.
C12_TraceRegardlessOfFilter ==
    \A ev \in Events :
        (calls[ev].op = "log" /\ calls[ev].status = "filtered" /\ AtTrigger(ev)) => HasTrace(ev)

\* C12 as amended: the check runs on every log event that passes the
\* minimum-severity filter, whatever its severity: once the logger is done
\* with a log event at the trigger's file:line, the event has a trace exactly
\* if its severity is at or above the minimum.
C12_TraceForEveryEnabledSeverity ==
    \A ev \in Events :
        (/\ calls[ev].op = "log"
         /\ calls[ev].status \in {"filtered", "returned"}
         /\ AtTrigger(ev)) => (HasTrace(ev) <=> PassesFilter(ev))

\* Under minimum Debug, a Debug event and an Error event at the trigger have
\* both returned with their traces.
C12_Witness ==
    /\ Ready /\ Conf.minloglevel = "Debug"
    /\ \E e1, e2 \in Events :
          /\ calls[e1].op = "log" /\ calls[e1].level = "Debug" /\ calls[e1].status = "returned"
          /\ calls[e2].op = "log" /\ calls[e2].level = "Error" /\ calls[e2].status = "returned"
          /\ AtTrigger(e1) /\ AtTrigger(e2) /\ HasTrace(e1) /\ HasTrace(e2)

\* --------------------------------------------------------------------- C13

\* C13: a backtrace is logged only for an enabled invocation: a log event at
\* the trigger's file:line whose level minloglevel filters out leaves no trace
\* on stderr or in any file.
C13_NoTraceWhenFiltered ==
    \A ev \in Events :
        (/\ calls[ev].op = "log" /\ calls[ev].status # "nop"
         /\ ~PassesFilter(ev) /\ AtTrigger(ev)) =>
            /\ ~TraceOnStderr(ev)
            /\ \A path \in DOMAIN disk : ~TraceInFile(path, ev)

\* A Debug event at the trigger has been dropped under minimum Info, with
\* stderr and the files both in use, and an Error event at the same place has
\* its trace.
C13_Witness ==
    /\ Ready /\ Conf.minloglevel = "Info" /\ Conf.alsologtostderr /\ ~Conf.logtostderr
    /\ \E e1, e2 \in Events :
          /\ calls[e1].op = "log" /\ calls[e1].level = "Debug" /\ calls[e1].status = "filtered"
          /\ AtTrigger(e1) /\ ~HasTrace(e1)
          /\ calls[e2].op = "log" /\ calls[e2].status = "returned"
          /\ AtTrigger(e2) /\ HasTrace(e2)

\* --------------------------------------------------------------------- C14

\* The position of an event's line and of its trace in a sequence of chunks
\* (0 when absent).
PosOf(chunks, kind, ev) ==
    IF \E i \in 1..Len(chunks) : chunks[i].kind = kind /\ chunks[i].ev = ev
    THEN CHOOSE i \in 1..Len(chunks) : chunks[i].kind = kind /\ chunks[i].ev = ev
    ELSE 0
CountOf(chunks, kind, ev) ==
    Cardinality({i \in 1..Len(chunks) : chunks[i].kind = kind /\ chunks[i].ev = ev})

\* C14: once the logger is done with an event at the trigger, each destination
\* its normal write used carries the trace: stderr, when in use, after the
\* event's line; and among the files exactly one, the file of the effective
\* minimum severity, after the event's line there, and no other file.
C14_BacktraceDestinations ==
    \A ev \in Finished :
        AtTrigger(ev) =>
            /\ (Conf.logtostderr \/ Conf.alsologtostderr) =>
                  /\ CountOf(stderr, "backtrace", ev) = 1
                  /\ PosOf(stderr, "line", ev) > 0
                  /\ PosOf(stderr, "line", ev) < PosOf(stderr, "backtrace", ev)
            /\ ~Conf.logtostderr =>
                  \A level \in DOMAIN FileWriter :
                      IF level = Effective(LevelFrom(Conf.minloglevel))
                      THEN /\ CountOf(disk[FileWriter[level]], "backtrace", ev) = 1
                           /\ PosOf(disk[FileWriter[level]], "msg", ev) > 0
                           /\ PosOf(disk[FileWriter[level]], "msg", ev)
                                 < PosOf(disk[FileWriter[level]], "backtrace", ev)
                      ELSE ~TraceInFile(FileWriter[level], ev)

\* --------------------------------------------------------------------- C15

\* C15: every log file created at initialization lies in the directory that
\* log_dir of the flags passed to that init call names.
C15_FilesInLogDir ==
    \A i \in 1..Len(created) :
        \E level \in Levels :
            created[i] = unwrap(first_flags).log_dir \o "exe.host.user.log." \o Upper(level)

\* --------------------------------------------------------------------- C16

\* Whether a change of an extension was made before event ev was emitted.
Changed(op, arg, ev) ==
    \E k \in 1..Len(ext_calls) :
        ext_calls[k].op = op /\ ext_calls[k].arg = arg /\ ext_calls[k].at < ev

\* The line of event ev as the extensions in force when it was emitted ask
\* for: the year if with_year(true) came before it, its own abbreviation if
\* reduced_log_levels(false) came before it.
ExpectedLine(ev) ==
    Abbrev(IF ~Changed("reduced_log_levels", FALSE, ev) /\ calls[ev].level \in {"Trace", "Debug"}
           THEN "Info" ELSE calls[ev].level)
        \o (IF Changed("with_year", TRUE, ev) THEN "yyyy" ELSE "") \o "mmdd "
        \o EventSite(ev) \o "]"

\* C16: while Ready the flags never change, but a change of an extension takes
\* effect on the next event: each returned log event is rendered, on stderr
\* and in the files, with the extensions in force when it was emitted (lines
\* written before the change keep their form, every file keeps its header),
\* and after reduced_log_levels(false) a Trace or Debug event lies in the file
\* of its own level.
C16_ExtensionsMutable ==
    Ready =>
        /\ Conf = unwrap(first_flags)
        /\ \A path \in DOMAIN disk : disk[path][1].kind = "header"
        /\ \A ev \in Events :
              (calls[ev].op = "log" /\ calls[ev].status = "returned") =>
                  /\ \A i \in 1..Len(stderr) :
                        (stderr[i].kind = "line" /\ stderr[i].ev = ev) =>
                            stderr[i].text = ExpectedLine(ev)
                  /\ \A path \in DOMAIN disk : \A i \in 1..Len(disk[path]) :
                        (disk[path][i].kind = "msg" /\ disk[path][i].ev = ev) =>
                            disk[path][i].text = ExpectedLine(ev)
                  /\ (/\ Changed("reduced_log_levels", FALSE, ev)
                      /\ calls[ev].level \in {"Trace", "Debug"}
                      /\ ~Conf.logtostderr) =>
                         /\ calls[ev].level \in DOMAIN FileWriter
                         /\ FileLines(FileWriter[calls[ev].level], ev) = 1

\* --------------------------------------------------------------------- C17

\* The Glogger values at hand: the one in use and those the builder methods
\* returned.
Gloggers == {unwrap(LOGGER)} \cup {ext_calls[k].result : k \in 1..Len(ext_calls)}

\* The files that hold a chunk of event ev, and the files an Info event lands
\* in under the active configuration.
FilesOf(ev) == {path \in DOMAIN disk : InFile(path, ev)}
InfoFiles ==
    {FileWriter[level] : level \in {lv \in DOMAIN FileWriter :
        Rank(Effective(LevelFrom(Conf.minloglevel))) <= Rank(lv) /\ Rank(lv) <= Rank("Info")}}

\* C17: with extended levels off (the default) every Trace or Debug event the
\* logger takes on is rendered with 'I' and lies exactly in the files an Info
\* event lies in, and no Trace or Debug file exists; Warn, Error and Fatal keep
\* their own abbreviation; and the mapping collapses Trace and Debug into Info
\* with extended levels off, nothing else, and is the identity with them on.
C17_Collapsing ==
    Ready =>
        /\ unwrap(LOGGER).compatible_verbosity
        /\ DOMAIN FileWriter \cap {"Trace", "Debug"} = {}
        /\ \A ev \in Finished :
              LET shown == IF calls[ev].level \in {"Trace", "Debug"} THEN "I"
                           ELSE Abbrev(calls[ev].level)
              IN /\ \A i \in 1..Len(stderr) :
                        (stderr[i].kind = "line" /\ stderr[i].ev = ev) =>
                            stderr[i].text = shown \o "mmdd " \o EventSite(ev) \o "]"
                 /\ \A path \in DOMAIN disk : \A i \in 1..Len(disk[path]) :
                        (disk[path][i].kind = "msg" /\ disk[path][i].ev = ev) =>
                            disk[path][i].text = shown \o "mmdd " \o EventSite(ev) \o "]"
                 /\ (calls[ev].level \in {"Trace", "Debug"} /\ ~Conf.logtostderr) =>
                        FilesOf(ev) = InfoFiles
        /\ \A g \in Gloggers : \A level \in Levels :
              match_level(g, level) =
                  IF g.compatible_verbosity /\ level \in {"Trace", "Debug"} THEN "Info" ELSE level

\* Under minimum Trace a Trace event has returned and lies in the Info file
\* alone, rendered with 'I', and reduced_log_levels(false) has returned a
\* Glogger with extended levels on.
C17_Witness ==
    /\ Ready /\ ~Conf.logtostderr /\ Conf.minloglevel = "Trace"
    /\ \E g \in Gloggers : ~g.compatible_verbosity
    /\ \E ev \in Events :
          /\ calls[ev].op = "log" /\ calls[ev].level = "Trace" /\ calls[ev].status = "returned"
          /\ FilesOf(ev) = {FileWriter["Info"]}
          /\ \E i \in 1..Len(disk[FileWriter["Info"]]) :
                /\ disk[FileWriter["Info"]][i].ev = ev
                /\ disk[FileWriter["Info"]][i].text = "Immdd main.rs:20]"

\* --------------------------------------------------------------------- C18

\* The default configuration the documentation of Flags states.
DocumentedDefault(flags) ==
    /\ flags.colorlogtostderr = FALSE
    /\ flags.minloglevel = "Info"
    /\ ~is_some(flags.log_backtrace_at)
    /\ flags.logtostderr = FALSE
    /\ flags.alsologtostderr = FALSE
    /\ flags.log_dir = "/tmp/"

\* C18: Flags::default(), which the Glogger under construction carries, is
\* the documented default; and a logger initialized with these flags drops
\* every Trace and Debug event and writes every event at Info and above to
\* the files, never to stderr.
C18_DefaultConfiguration ==
    /\ is_some(l) => DocumentedDefault(unwrap(l).flags)
    /\ (Ready /\ DocumentedDefault(Conf)) =>
          /\ stderr = <<>>
          /\ \A ev \in Events :
                (calls[ev].op = "log" /\ calls[ev].status # "nop") =>
                    IF calls[ev].level \in {"Trace", "Debug"}
                    THEN calls[ev].status = "filtered" /\ ~InSomeFile(ev)
                    ELSE /\ calls[ev].status \in {"running", "returned"}
                         /\ calls[ev].status = "returned" =>
                               \A level \in {"Info", "Warn", "Error"} :
                                   Rank(level) <= Rank(calls[ev].level) =>
                                       FileLines(FileWriter[level], ev) = 1

\* A logger initialized with the default flags has dropped a Debug event and
\* written an Info event to the Info file, with nothing on stderr.
C18_Witness ==
    /\ Ready /\ Conf = FlagsDefault /\ stderr = <<>>
    /\ \E e1, e2 \in Events :
          /\ calls[e1].op = "log" /\ calls[e1].level = "Debug" /\ calls[e1].status = "filtered"
          /\ calls[e2].op = "log" /\ calls[e2].level = "Info" /\ calls[e2].status = "returned"
          /\ FileLines(FileWriter["Info"], e2) = 1


\* ---------------------------------------------------------------- C19

\* The files whose lock thread t holds.
Held(t) == {path \in DOMAIN mutex : mutex[path] = t}

\* Where a thread is inside the window of one file.
GuardAlive == {"write_nl", "backtrace_guard", "flush_guard"}

\* C19: the locks of the files are taken one at a time. During the fan-out,
\* the backtrace append and flush a thread holds the lock of exactly one file
\* inside a file's window and of no file anywhere else; in particular a thread
\* that is about to take (or is stalled on) the lock of one file holds the lock
\* of no other.
C19_OneLockAtATime ==
    \A t \in Threads :
        /\ Cardinality(Held(t)) <= 1
        /\ pc[t] \in GuardAlive => Cardinality(Held(t)) = 1
        /\ pc[t] \notin GuardAlive => Held(t) = {}

\* C19 witness: two threads are inside the windows of two different files at
\* once, one of them in its fan-out past a file it has released, which now
\* carries its complete line.
C19_Witness ==
    \E t, u \in Threads :
        /\ t # u
        /\ pc[t] = "write_nl"
        /\ pc[u] \in GuardAlive
        /\ Held(t) # {} /\ Held(u) # {} /\ Held(t) # Held(u)
        /\ \E path \in DOMAIN disk \ Held(t) :
              \E i \in DOMAIN disk[path] :
                  disk[path][i].kind = "nl" /\ disk[path][i].ev = rec[t].args


\* ---------------------------------------------------------------- C20

\* Thread t is inside a logging call (Log::log past the enabled() test).
InLog(t) == rec[t] # NoRecord

\* Thread t is inside a call and has no step to take.
Stalled(t) == pc[t] # "idle" /\ ~ENABLED StepLocks(t)

\* The file whose lock thread t, at the head of a turn of write_file's loop or
\* of its backtrace block, is about to take.
Wanted(t) ==
    LET self == unwrap(LOGGER)
    IN IF level_int[t] <= write_file_last(self, rec[t])
       THEN self.file_writer[get_by_right(self, level_int[t])]
       ELSE self.file_writer[backtrace_level(self)]

\* A logging call waits only at a lock() of write_file, for one file, whose
\* lock another thread holds inside that file's window and holds alone.
WaitsForOneWindow ==
    \A t \in Threads :
        (InLog(t) /\ Stalled(t)) =>
            /\ pc[t] = "write_file"
            /\ Held(t) = {}
            /\ \E u \in Threads \ {t} :
                  /\ mutex[Wanted(t)] = u
                  /\ pc[u] \in GuardAlive
                  /\ Held(u) = {Wanted(t)}
                  /\ ENABLED StepLocks(u)

Headers(path) == {i \in 1..Len(disk[path]) : disk[path][i].kind = "header"}

\* C21: every log file that exists begins with its header and holds no other
\* header, whatever the threads did while init ran: no chunk of an event comes
\* before the header of the file it is in.
C21_HeaderFirst ==
    \A path \in DOMAIN disk :
        /\ Headers(path) = {1}
        /\ \A i \in 1..Len(disk[path]) :
               disk[path][i].ev # 0 => \E h \in Headers(path) : h < i

\* C21 witness: a file holds its header and after it the line of an event,
\* and an earlier call came before the logger was installed and wrote nothing.
C21_Witness ==
    \E path \in DOMAIN disk :
        /\ Len(disk[path]) >= 2
        /\ disk[path][1].kind = "header"
        /\ disk[path][2].kind = "msg"
        /\ \E ev \in Events :
               /\ ev < disk[path][2].ev
               /\ calls[ev].status \in {"nop", "skipped"}

\* --------------------------------------------------------------------- C22

\* C22: once the logger is Ready no step of any call (log, fatal!, flush, a
\* repeated init) changes the severity-to-file map, creates a file, or adds or
\* removes a file's lock.
C22_FileMapFixed ==
    [][Ready => /\ LOGGER' = LOGGER
                /\ created' = created
                /\ DOMAIN disk' = DOMAIN disk
                /\ DOMAIN mutex' = DOMAIN mutex]_vars

\* C22 witness: the logger is Ready with files, a repeated init has returned
\* and an event has been written to a file.
C22_Witness ==
    /\ Ready
    /\ DOMAIN FileWriter # {}
    /\ \E i \in 2..Len(inits) : inits[i].result # "pending"
    /\ \E ev \in Events : InSomeFile(ev)

\* --------------------------------------------------------------------- C23

\* Event ev's message lies in the file at path.
MsgIn(path, ev) == PosOf(disk[path], "msg", ev) # 0

\* C23 as stated: two events that both lie in two files lie there in the same
\* order.
C23_SameOrderInBothFiles ==
    \A p1, p2 \in DOMAIN disk :
        \A e1, e2 \in Events :
            (MsgIn(p1, e1) /\ MsgIn(p1, e2) /\ MsgIn(p2, e1) /\ MsgIn(p2, e2)) =>
                ((PosOf(disk[p1], "msg", e1) < PosOf(disk[p1], "msg", e2))
                    <=> (PosOf(disk[p2], "msg", e1) < PosOf(disk[p2], "msg", e2)))

\* C23 amended: an event's line goes to its files in ascending rank, one file
\* after the other: whenever a file holds an event's message, every file of
\* lower rank, from the minimum's rank on, already holds the event's whole
\* line. No order between the lines of two events is kept from one file to
\* the next.
C23_AscendingCascade ==
    Ready =>
        \A ev \in Events :
            \A level, lower \in DOMAIN FileWriter :
                (/\ MsgIn(FileWriter[level], ev)
                 /\ Rank(Effective(Conf.minloglevel)) <= Rank(lower)
                 /\ Rank(lower) < Rank(level)) =>
                    FileLines(FileWriter[lower], ev) = 1

\* C23 witness: two Warn events have returned, each with its whole line in
\* the Info and the Warn file, and the Info file has them in one order, the
\* Warn file in the other.
C23_Witness ==
    /\ Ready /\ ~Conf.logtostderr
    /\ \E e1, e2 \in Events :
          /\ e1 # e2
          /\ calls[e1].status = "returned" /\ calls[e2].status = "returned"
          /\ \A level \in {"Info", "Warn"} :
                 FileLines(FileWriter[level], e1) = 1 /\ FileLines(FileWriter[level], e2) = 1
          /\ PosOf(disk[FileWriter["Info"]], "msg", e1) < PosOf(disk[FileWriter["Info"]], "msg", e2)
          /\ PosOf(disk[FileWriter["Warn"]], "msg", e2) < PosOf(disk[FileWriter["Warn"]], "msg", e1)

\* --------------------------------------------------------------------- C24

\* The files whose Mutex is poisoned.
Poisoned == {path \in DOMAIN mutex : mutex[path] = "poisoned"}

\* A log call that returned left its whole line in every file of its cascade.
NoSilentDrop ==
    \A ev \in Events :
        (calls[ev].op = "log" /\ calls[ev].status = "returned" /\ ~Conf.logtostderr) =>
            \A level \in DOMAIN FileWriter :
                (/\ Rank(Effective(Conf.minloglevel)) <= Rank(level)
                 /\ Rank(level) <= Rank(Effective(calls[ev].level))) =>
                    FileLines(FileWriter[level], ev) = 1

\* An init call that returned left a logger whose files all exist and begin
\* with their header.
InitReturnedComplete ==
    \A i \in 1..Len(inits) :
        inits[i].result \in {"Ok", "Err"} =>
            /\ Ready
            /\ ~Conf.logtostderr =>
                  \A level \in {"Info", "Warn", "Error"} :
                      /\ level \in DOMAIN FileWriter
                      /\ Headers(FileWriter[level]) = {1}

\* The failed writes and flushes, one poisoned file each, each took its thread
\* down.
FailureAborts ==
    Cardinality(Poisoned) <= Cardinality({t \in Threads : pc[t] = "panicked"})

\* A poisoned file stays poisoned and is written no more.
PoisonedForGood ==
    \A path \in Poisoned : mutex'[path] = "poisoned" /\ disk'[path] = disk[path]

\* C24: file I/O failures abort. A log call that returns has its line in every
\* file of its cascade and an init call that returns has created every file
\* with its header, whatever failed before; every file whose write or flush
\* failed has cost a thread; and once a write or flush of a file has failed
\* nothing is written to that file again.
C24_FailFast ==
    /\ [](Ready => NoSilentDrop)
    /\ []InitReturnedComplete
    /\ []FailureAborts
    /\ [][PoisonedForGood]_vars

\* C24 witness: the write of one event failed and poisoned a file, and a later
\* event that needed the same file was aborted without touching it.
C24_Witness ==
    /\ Ready
    /\ Cardinality(Poisoned) = 1
    /\ \E e1, e2 \in Events :
          /\ e1 < e2
          /\ calls[e1].status = "panic" /\ calls[e2].status = "panic"
          /\ \A path \in Poisoned : ~InFile(path, e2)

\* --------------------------------------------------------------------- C25

\* The foreground colour the claim gives a severity.
ColourOf(level) ==
    IF level \in {"Error", "Fatal"} THEN "red"
    ELSE IF level = "Warn" THEN "yellow" ELSE "default"

\* The colour stderr is left in by the chunks written so far.
RECURSIVE ColourAfter(_)
ColourAfter(chunks) ==
    IF chunks = <<>> THEN "default"
    ELSE LET last == chunks[Len(chunks)]
         IN IF last.kind = "set_color" THEN last.text
            ELSE IF last.kind = "reset" THEN "default"
            ELSE ColourAfter(SubSeq(chunks, 1, Len(chunks) - 1))

\* C25: with colorlogtostderr every line on stderr comes directly after the
\* colour of its event's severity was set and directly before the reset, so
\* between two writes the stream is in its default colour; without the flag
\* the colour is never touched.
C25_ColourProtocol ==
    Ready =>
        IF Conf.colorlogtostderr
        THEN /\ \A i \in 1..Len(stderr) :
                    stderr[i].kind = "line" =>
                        /\ i > 1 /\ i < Len(stderr)
                        /\ stderr[i - 1] = Chunk("set_color", stderr[i].ev,
                                                 ColourOf(calls[stderr[i].ev].level))
                        /\ stderr[i + 1] = Chunk("reset", stderr[i].ev, "")
             /\ \A i \in 1..Len(stderr) :
                    stderr[i].kind = "set_color" =>
                        i < Len(stderr) /\ stderr[i + 1].kind = "line"
             /\ ColourAfter(stderr) = "default"
        ELSE \A i \in 1..Len(stderr) : stderr[i].kind \notin {"set_color", "reset"}

\* C25 witness: with the flag on, stderr holds the red line of a Fatal event
\* and a yellow line, each followed by its reset.
C25_Witness ==
    /\ Ready /\ Conf.colorlogtostderr
    /\ \A colour \in {"red", "yellow"} :
           \E i \in 1..Len(stderr) :
               /\ stderr[i].kind = "set_color" /\ stderr[i].text = colour
               /\ i + 2 <= Len(stderr) /\ stderr[i + 2].kind = "reset"
    /\ \E ev \in Events : calls[ev].level = "Fatal" /\ OnStderr(ev)

\* --------------------------------------------------------------------- C26

\* The facade's record of event ev came without a file or without a line
\* (the call sites of this specification have a file name and line 20).
LacksMetadata(ev) == calls[ev].op = "log" /\ (calls[ev].file = "" \/ calls[ev].line = 0)

\* C26: an enabled event that lacks its file or its line is written all the
\* same, with "" for the file and 0 for the line, its call returns, and it gets
\* no backtrace whatever trigger is configured.
C26_MissingMetadata ==
    Ready =>
        \A ev \in Events :
            (LacksMetadata(ev) /\ calls[ev].status \notin {"nop", "filtered", "running"}) =>
                /\ calls[ev].status = "returned"
                /\ StderrLines(ev) = 1
                /\ ~TraceOnStderr(ev)

\* --------------------------------------------------------------------- C27

\* C27: a logging call whose message formatting logs an event on the same
\* thread goes through: no such call has panicked and no thread is stuck on a
\* lock it holds itself.
C27_ReentrantCompletes ==
    /\ \A ev \in Events : calls[ev].op = "log_reentrant" => calls[ev].status # "panic"
    /\ \A t \in Threads : pc[t] # "deadlocked"

====
